---- MODULE Spec2Model ----
(***************************************************************************)
(* ScrollVideoContainer (src/ScrollVideoContainer.tsx): a scroll handler   *)
(* maps the container geometry to a target playback time kept in a ref,    *)
(* and a requestAnimationFrame loop eases video.currentTime toward that    *)
(* target, skipping the write while the video is seeking.                  *)
(*                                                                         *)
(* Numbers.  JavaScript numbers are IEEE doubles.  A time value is a       *)
(* record [k, v]: k = "fin" with v the time in 1/Scale seconds, k = "nan", *)
(* or k = "inf" with v the sign.  A scroll progress is an exact fraction   *)
(* [k = "rat", n, d] (d > 0), k = "nan", or k = "inf".  Lengths (pixels)   *)
(* are integers.  Products are rounded to the nearest 1/Scale second,      *)
(* which stands for the double rounding of the code.                       *)
(***************************************************************************)
EXTENDS Integers, FiniteSets, Sequences, TLC

----------------------------------------------------------------------------
(* Bounds of the model *)

\* resolution of a time value: units per second
Scale == 10000
\* host frames begun while the component is mounted (Spec)
MaxFrames == 3
\* host frames begun while mounted in the scroll comparison (SpecScroll)
ScrollFrames == 1
\* host frames of the convergence run (SpecConv)
ConvFrames == 45
\* host frames, and scroll events, dispatched after the unmount
MaxPost == 1

----------------------------------------------------------------------------
(* Program constants *)

\* const easing = 0.15
EasingNum == 15
EasingDen == 100
\* Math.abs(diff) > 0.01
EpsilonNum == 1
EpsilonDen == 100

----------------------------------------------------------------------------
(* IEEE numbers *)

Fin(v) == [k |-> "fin", v |-> v]
NaN == [k |-> "nan", v |-> 0]
Inf == [k |-> "inf", v |-> 1]
Seconds(s) == Fin(s * Scale)

IsFinite(x) == x.k = "fin"

Sign(i) == IF i > 0 THEN 1 ELSE IF i < 0 THEN -1 ELSE 0
AbsInt(i) == IF i < 0 THEN -i ELSE i

\* a / b rounded to the nearest integer (b > 0)
Round(a, b) == (2 * a + b) \div (2 * b)

\* x - y
Sub(x, y) ==
    IF x.k = "nan" \/ y.k = "nan" THEN NaN
    ELSE IF x.k = "inf" /\ y.k = "inf"
         THEN (IF x.v = y.v THEN NaN ELSE x)
    ELSE IF x.k = "inf" THEN x
    ELSE IF y.k = "inf" THEN [k |-> "inf", v |-> -y.v]
    ELSE Fin(x.v - y.v)

\* x + y
Add(x, y) ==
    IF x.k = "nan" \/ y.k = "nan" THEN NaN
    ELSE IF x.k = "inf" /\ y.k = "inf"
         THEN (IF x.v = y.v THEN x ELSE NaN)
    ELSE IF x.k = "inf" THEN x
    ELSE IF y.k = "inf" THEN y
    ELSE Fin(x.v + y.v)

\* Math.abs(x)
MathAbs(x) ==
    IF x.k = "nan" THEN NaN
    ELSE IF x.k = "inf" THEN Inf
    ELSE Fin(AbsInt(x.v))

\* x > num/den, false for NaN
GreaterThan(x, num, den) ==
    IF x.k = "nan" THEN FALSE
    ELSE IF x.k = "inf" THEN x.v > 0
    ELSE x.v * den > num * Scale

\* x * (num/den) for a positive constant num/den
TimesConst(x, num, den) ==
    IF x.k = "fin" THEN Fin(Round(x.v * num, den)) ELSE x

----------------------------------------------------------------------------
(* Scroll progress: the quotient of two lengths *)

Rat(n, d) == [k |-> "rat", n |-> n, d |-> d]
ProgressNaN == [k |-> "nan", n |-> 0, d |-> 1]
ProgressInf(s) == [k |-> "inf", n |-> s, d |-> 1]

\* a / b on lengths
Divide(a, b) ==
    IF b = 0 THEN (IF a = 0 THEN ProgressNaN ELSE ProgressInf(Sign(a)))
    ELSE IF b < 0 THEN Rat(-a, -b)
    ELSE Rat(a, b)

\* Math.min(1, q)
MathMinOne(q) ==
    IF q.k = "nan" THEN q
    ELSE IF q.k = "inf" THEN (IF q.n > 0 THEN Rat(1, 1) ELSE q)
    ELSE IF q.n > q.d THEN Rat(1, 1) ELSE q

\* Math.max(0, q)
MathMaxZero(q) ==
    IF q.k = "nan" THEN q
    ELSE IF q.k = "inf" THEN (IF q.n < 0 THEN Rat(0, 1) ELSE q)
    ELSE IF q.n < 0 THEN Rat(0, 1) ELSE q

\* progress * duration
Times(p, x) ==
    IF p.k = "nan" \/ x.k = "nan" THEN NaN
    ELSE IF p.k = "inf"
         THEN (IF x.k = "fin" /\ x.v = 0 THEN NaN
               ELSE [k |-> "inf", v |-> p.n * Sign(x.v)])
    ELSE IF x.k = "inf"
         THEN (IF p.n = 0 THEN NaN ELSE [k |-> "inf", v |-> Sign(p.n) * x.v])
    ELSE Fin(Round(p.n * x.v, p.d))

----------------------------------------------------------------------------
(* State *)

VARIABLES
    phase,              \* "mounted" until the effect cleanup ran, then "unmounted"
    scrollListeners,    \* the window's scroll listeners
    frameCallbacks,     \* the host's map of pending animation frame callbacks
    hostBatch,          \* handles the host took for the frame it is running
    nextHandle,         \* the handle the next requestAnimationFrame returns
    animationFrameId,   \* let animationFrameId
    targetTimeRef,      \* targetTimeRef.current
    currentTime,        \* video.currentTime
    duration,           \* video.duration
    seeking,            \* video.seeking
    isLoading,          \* useState(true)
    frames,             \* host frames begun while mounted
    postFrames,         \* host frames begun after the unmount
    postScrolls,        \* scroll events dispatched after the unmount
    notified,           \* metadata-loaded notifications delivered: 0, 1, many
    lastTick,           \* what the latest renderLoop run observed and did
    seekRun,            \* consecutive latest renderLoop runs that saw seeking
    seekRunStart,       \* video.currentTime when that run of ticks began
    samples,            \* what the latest and an earlier handleScroll run did
    teardown,           \* currentTime, target and the host's batch at the cleanup
    executedAfterTeardown \* handleScroll or renderLoop ran after the cleanup

vars == << phase, scrollListeners, frameCallbacks, hostBatch, nextHandle,
           animationFrameId, targetTimeRef, currentTime, duration, seeking,
           isLoading, frames, postFrames, postScrolls, notified, lastTick,
           seekRun, seekRunStart, samples, teardown,
           executedAfterTeardown >>

hostVars == << scrollListeners, frameCallbacks, hostBatch, nextHandle,
               animationFrameId >>
videoVars == << currentTime, duration, seeking >>
countVars == << frames, postFrames, postScrolls, notified >>
tickHistory == << lastTick, seekRun, seekRunStart >>
scrollHistory == << samples >>

----------------------------------------------------------------------------
(* Inputs *)

\* containerRect.top, containerRect.height, window.innerHeight
Tops == {1, -2, -4, -9}
Heights == {1, 2, 10}
WindowHeights == {2}
\* video.duration once the metadata is known
Durations == {Seconds(0), Seconds(100), Inf}

NoSample == [ran |-> FALSE, top |-> 0, height |-> 0, windowHeight |-> 0,
             duration |-> NaN, before |-> Fin(0), wrote |-> FALSE,
             target |-> Fin(0)]
NoSamples == [now |-> NoSample, then |-> NoSample]
NoTeardown == [currentTime |-> Fin(0), target |-> Fin(0), batch |-> {}]

----------------------------------------------------------------------------
(* handleScroll *)

\* if (maxScroll <= 0) return
RangeRejectedStrict(maxScroll) == maxScroll < 0
RangeRejected(maxScroll) == maxScroll <= 0

\* Math.max(0, Math.min(1, scrollDistance / maxScroll))
ProgressUnclamped(scrollDistance, maxScroll) ==
    MathMaxZero(Divide(scrollDistance, maxScroll))
ProgressNoFloor(scrollDistance, maxScroll) ==
    MathMinOne(Divide(scrollDistance, maxScroll))
Progress(scrollDistance, maxScroll) ==
    MathMaxZero(MathMinOne(Divide(scrollDistance, maxScroll)))

\* if (Number.isNaN(video.duration)) return
DurationAlwaysAccepted(d) == FALSE
DurationRejected(d) == d.k = "nan"

\* whether this run of handleScroll reaches the assignment
ScrollAccepted(top, height, windowHeight) ==
    /\ ~RangeRejected(height - windowHeight)
    /\ ~DurationRejected(duration)

\* the value handleScroll leaves in targetTimeRef.current
ScrollTargetKeepMax(top, height, windowHeight) ==
    IF ScrollAccepted(top, height, windowHeight)
    THEN LET t == Times(Progress(-top, height - windowHeight), duration)
         IN  IF t.k = "fin" /\ targetTimeRef.k = "fin" /\ t.v < targetTimeRef.v
             THEN targetTimeRef ELSE t
    ELSE targetTimeRef
ScrollTarget(top, height, windowHeight) ==
    IF ScrollAccepted(top, height, windowHeight)
    THEN Times(Progress(-top, height - windowHeight), duration)
    ELSE targetTimeRef

\* what this run of handleScroll read and wrote
Sample(top, height, windowHeight) ==
    [ran |-> TRUE, top |-> top, height |-> height,
     windowHeight |-> windowHeight, duration |-> duration,
     before |-> targetTimeRef,
     wrote |-> ScrollAccepted(top, height, windowHeight),
     target |-> ScrollTarget(top, height, windowHeight)]

HandleScroll(top, height, windowHeight) ==
    /\ targetTimeRef' = ScrollTarget(top, height, windowHeight)
    /\ executedAfterTeardown' =
           (executedAfterTeardown \/ phase = "unmounted")

----------------------------------------------------------------------------
(* renderLoop *)

\* if (!video.seeking)
SeekGuardIgnored(s) == TRUE
SeekGuardPermits(s) == ~s

\* Math.abs(diff) > 0.01
SignificantAny(diff) == GreaterThan(MathAbs(diff), 0, EpsilonDen)
Significant(diff) == GreaterThan(MathAbs(diff), EpsilonNum, EpsilonDen)

\* diff * easing
EasedSlow(diff) == TimesConst(diff, 10, EasingDen)
Eased(diff) == TimesConst(diff, EasingNum, EasingDen)

\* targetTimeRef.current, as renderLoop reads it each time it runs
TargetReadAtMount == Fin(0)
TargetRead == targetTimeRef

Diff == Sub(TargetRead, currentTime)
NewTime == Add(currentTime, Eased(Diff))

\* the branch this run of renderLoop takes
TickOutcome ==
    IF ~Significant(Diff) THEN "converged"
    ELSE IF ~SeekGuardPermits(seeking) THEN "blocked"
    ELSE IF ~IsFinite(NewTime) THEN "threw"
    ELSE "wrote"

\* renderLoop pulling the target to the time it has just written
RenderLoopSnap(h) ==
    /\ currentTime' = IF TickOutcome = "wrote" THEN NewTime ELSE currentTime
    /\ seeking' = IF TickOutcome = "wrote" THEN TRUE ELSE seeking
    /\ IF TickOutcome = "threw"
       THEN /\ frameCallbacks' = frameCallbacks \ {h}
            /\ UNCHANGED << animationFrameId, nextHandle >>
       ELSE /\ frameCallbacks' = (frameCallbacks \ {h}) \cup {nextHandle}
            /\ animationFrameId' = nextHandle
            /\ nextHandle' = nextHandle + 1
    /\ lastTick' = [outcome |-> TickOutcome, seeking |-> seeking,
                    gap |-> Significant(Diff), before |-> currentTime,
                    afterSeeking |-> seekRun > 0]
    /\ seekRun' = IF seeking THEN seekRun + 1 ELSE 0
    /\ seekRunStart' = IF seeking /\ seekRun = 0 THEN currentTime
                       ELSE IF seeking THEN seekRunStart ELSE Fin(0)
    /\ executedAfterTeardown' =
           (executedAfterTeardown \/ phase = "unmounted")
    /\ targetTimeRef' = IF TickOutcome = "wrote" THEN NewTime
                      ELSE targetTimeRef
    /\ UNCHANGED duration

\* renderLoop, run by the host for the callback with handle h.  Assigning a
\* non-finite value to video.currentTime throws a TypeError, which ends the
\* callback before requestAnimationFrame is reached.  A successful
\* assignment starts a seek.
RenderLoop(h) ==
    /\ currentTime' = IF TickOutcome = "wrote" THEN NewTime ELSE currentTime
    /\ seeking' = IF TickOutcome = "wrote" THEN TRUE ELSE seeking
    /\ IF TickOutcome = "threw"
       THEN /\ frameCallbacks' = frameCallbacks \ {h}
            /\ UNCHANGED << animationFrameId, nextHandle >>
       ELSE /\ frameCallbacks' = (frameCallbacks \ {h}) \cup {nextHandle}
            /\ animationFrameId' = nextHandle
            /\ nextHandle' = nextHandle + 1
    /\ lastTick' = [outcome |-> TickOutcome, seeking |-> seeking,
                    gap |-> Significant(Diff), before |-> currentTime,
                    afterSeeking |-> seekRun > 0]
    /\ seekRun' = IF seeking THEN seekRun + 1 ELSE 0
    /\ seekRunStart' = IF seeking /\ seekRun = 0 THEN currentTime
                       ELSE IF seeking THEN seekRunStart ELSE Fin(0)
    /\ executedAfterTeardown' =
           (executedAfterTeardown \/ phase = "unmounted")
    /\ UNCHANGED << duration, targetTimeRef >>

----------------------------------------------------------------------------
(* Mount: the effect ran.  The scroll listener is attached, renderLoop ran  *)
(* once (target 0, currentTime 0: nothing to write) and scheduled itself.   *)

MountTick == [outcome |-> "converged", seeking |-> FALSE, gap |-> FALSE,
              before |-> Fin(0), afterSeeking |-> FALSE]

\* the effect without its call of renderLoop()
MountedWithoutLoop ==
    /\ phase = "mounted"
    /\ scrollListeners = {"handleScroll"}
    /\ frameCallbacks = {}
    /\ hostBatch = {}
    /\ nextHandle = 2
    /\ animationFrameId = 1
    /\ seeking = FALSE
    /\ frames = 0
    /\ postFrames = 0
    /\ postScrolls = 0
    /\ lastTick = MountTick
    /\ seekRun = 0
    /\ seekRunStart = Fin(0)
    /\ samples = NoSamples
    /\ teardown = NoTeardown
    /\ executedAfterTeardown = FALSE

Mounted ==
    /\ phase = "mounted"
    /\ scrollListeners = {"handleScroll"}
    /\ frameCallbacks = {1}
    /\ hostBatch = {}
    /\ nextHandle = 2
    /\ animationFrameId = 1
    /\ seeking = FALSE
    /\ frames = 0
    /\ postFrames = 0
    /\ postScrolls = 0
    /\ lastTick = MountTick
    /\ seekRun = 0
    /\ seekRunStart = Fin(0)
    /\ samples = NoSamples
    /\ teardown = NoTeardown
    /\ executedAfterTeardown = FALSE

Init ==
    /\ Mounted
    /\ targetTimeRef = Fin(0)
    /\ currentTime = Fin(0)
    /\ duration = NaN
    /\ isLoading = TRUE
    /\ notified = 0

----------------------------------------------------------------------------
(* Host events *)

\* The window dispatches a scroll event to the listeners it has.
ScrollEvent(top, height, windowHeight) ==
    /\ phase = "unmounted" => postScrolls < MaxPost
    /\ IF "handleScroll" \in scrollListeners
       THEN HandleScroll(top, height, windowHeight)
       ELSE UNCHANGED << targetTimeRef, executedAfterTeardown >>
    /\ postScrolls' = IF phase = "unmounted" THEN postScrolls + 1
                      ELSE postScrolls
    /\ UNCHANGED << phase, hostVars, videoVars, isLoading, frames,
                    postFrames, notified, tickHistory, teardown >>

Scroll ==
    \E top \in Tops, height \in Heights, windowHeight \in WindowHeights :
        /\ ScrollEvent(top, height, windowHeight)
        /\ UNCHANGED samples

\* The same event, with what handleScroll read and did recorded; the run
\* recorded before it is kept for comparison, or an older one stays.
ScrollAndRemember ==
    \E top \in Tops, height \in Heights, windowHeight \in WindowHeights :
        /\ phase = "mounted"
        /\ ScrollEvent(top, height, windowHeight)
        /\ \E keep \in {samples.then, samples.now} :
               samples' = [now |-> Sample(top, height, windowHeight),
                           then |-> keep]

\* The host begins a frame: it takes the callbacks pending at that moment.
FrameBeginUpTo(cap) ==
    /\ hostBatch = {}
    /\ IF phase = "mounted" THEN frames < cap ELSE postFrames < MaxPost
    /\ hostBatch' = frameCallbacks
    /\ frames' = IF phase = "mounted" THEN frames + 1 ELSE frames
    /\ postFrames' = IF phase = "mounted" THEN postFrames ELSE postFrames + 1
    /\ UNCHANGED << phase, scrollListeners, frameCallbacks, nextHandle,
                    animationFrameId, targetTimeRef, videoVars, isLoading,
                    postScrolls, notified, tickHistory, scrollHistory,
                    teardown, executedAfterTeardown >>

FrameBegin == FrameBeginUpTo(MaxFrames)
ScrollFrameBegin == FrameBeginUpTo(ScrollFrames)
\* a frame of a run in which no tick meets a seek in progress
ConvFrameBegin == ~seeking /\ FrameBeginUpTo(ConvFrames)

\* The host runs a callback of the frame, unless it was cancelled meanwhile.
RunCallback ==
    \E h \in hostBatch :
        /\ hostBatch' = hostBatch \ {h}
        /\ IF h \in frameCallbacks
           THEN RenderLoop(h)
           ELSE UNCHANGED << frameCallbacks, animationFrameId, nextHandle,
                             targetTimeRef, videoVars, tickHistory,
                             executedAfterTeardown >>
        /\ UNCHANGED << phase, scrollListeners, isLoading, countVars,
                        scrollHistory, teardown >>

\* The video finished the seek a write of currentTime started.
Seeked ==
    /\ seeking
    /\ seeking' = FALSE
    /\ UNCHANGED << phase, hostVars, targetTimeRef, currentTime, duration,
                    isLoading, countVars, tickHistory, scrollHistory,
                    teardown, executedAfterTeardown >>

\* handleLoadedMetadata: setIsLoading(false)
LoadingToggled == ~isLoading
LoadingAfterMetadata == FALSE

\* The video's metadata arrived (onLoadedMetadata); duration is known.
\* The notification may come again; the count stops at "many".
LoadedMetadata ==
    /\ phase = "mounted"
    /\ notified' = IF notified < 2 THEN notified + 1 ELSE notified
    /\ isLoading' = LoadingAfterMetadata
    /\ IF duration.k = "nan"
       THEN duration' \in Durations
       ELSE duration' = duration
    /\ UNCHANGED << phase, hostVars, targetTimeRef, currentTime, seeking,
                    frames, postFrames, postScrolls, tickHistory,
                    scrollHistory, teardown, executedAfterTeardown >>

\* The video reports another duration (a stream's length becoming known).
DurationChange ==
    /\ phase = "mounted"
    /\ duration.k # "nan"
    /\ duration' \in Durations \ {duration}
    /\ UNCHANGED << phase, hostVars, targetTimeRef, currentTime, seeking,
                    isLoading, countVars, tickHistory, scrollHistory,
                    teardown, executedAfterTeardown >>

----------------------------------------------------------------------------
(* Unmount: the effect cleanup *)

\* window.removeEventListener('scroll', handleScroll)
RemoveScrollListener(listeners) == listeners \ {"handleScroll"}

\* cancelAnimationFrame(animationFrameId)
CancelNothing(callbacks, id) == callbacks
CancelAnimationFrame(callbacks, id) == callbacks \ {id}

Unmount ==
    /\ phase = "mounted"
    /\ phase' = "unmounted"
    /\ scrollListeners' = RemoveScrollListener(scrollListeners)
    /\ frameCallbacks' = CancelAnimationFrame(frameCallbacks, animationFrameId)
    /\ teardown' = [currentTime |-> currentTime, target |-> targetTimeRef,
                     batch |-> hostBatch]
    /\ UNCHANGED << hostBatch, nextHandle, animationFrameId, targetTimeRef,
                    videoVars, isLoading, countVars, tickHistory,
                    scrollHistory, executedAfterTeardown >>

----------------------------------------------------------------------------
(* Specifications *)

\* The component from mount to unmount and after.
Next ==
    \/ Scroll
    \/ FrameBegin
    \/ RunCallback
    \/ Seeked
    \/ LoadedMetadata
    \/ DurationChange
    \/ Unmount

Spec == Init /\ [][Next]_vars

\* The mounted component whose duration, once known, stays, with the inputs
\* and results of two runs of handleScroll recorded.
NextScroll ==
    \/ ScrollAndRemember
    \/ ScrollFrameBegin
    \/ RunCallback
    \/ Seeked
    \/ LoadedMetadata

SpecScroll == Init /\ [][NextScroll]_vars

\* The damper alone: the target is 10 seconds ahead of the playback time,
\* no scroll event moves it, and every seek completes before the next frame.
InitConv ==
    /\ Mounted
    /\ targetTimeRef = Seconds(10)
    /\ currentTime = Fin(0)
    /\ duration \in {Seconds(10), Seconds(100)}
    /\ isLoading = FALSE
    /\ notified = 1

NextConv ==
    \/ ConvFrameBegin
    \/ RunCallback
    \/ Seeked

SpecConv == InitConv /\ [][NextConv]_vars

----------------------------------------------------------------------------
(* Properties *)

\* renderLoop runs since the initial state
Ticks == nextHandle - 2

\* C1: after the unmount cleanup, whatever frames the host begins and scroll
\* events it dispatches (a callback the host had already taken for the
\* running frame included), neither renderLoop nor handleScroll runs, and
\* video.currentTime and the target stay as they were at the cleanup.
NoWriteAfterTeardown ==
    phase = "unmounted" =>
        /\ ~executedAfterTeardown
        /\ currentTime = teardown.currentTime
        /\ targetTimeRef = teardown.target

\* C1 witness: the cleanup ran while the host held the callback for the
\* running frame; that frame, a later frame and a scroll event followed.
TeardownWithQueuedFrame ==
    /\ phase = "unmounted"
    /\ teardown.batch # {}
    /\ hostBatch = {}
    /\ postFrames >= 1
    /\ postScrolls >= 1
    /\ teardown.target # Fin(0)
    /\ teardown.currentTime # teardown.target

\* C2: a renderLoop run that sees video.seeking true does not write
\* video.currentTime, whatever target and currentTime are; over a run of
\* consecutive such ticks currentTime stays what it was when the run began.
SeekGuardExclusion ==
    /\ lastTick.seeking =>
           /\ lastTick.outcome \in {"converged", "blocked"}
           /\ currentTime = lastTick.before
    /\ seekRun > 0 => currentTime = seekRunStart

\* C2 witness: two consecutive ticks wanted to write and were held back.
TwoBlockedTicks ==
    /\ seekRun >= 2
    /\ lastTick.outcome = "blocked"
    /\ lastTick.gap

\* C3: the first renderLoop run that sees video.seeking false after runs
\* that saw it true, with |target - currentTime| > 0.01, writes
\* video.currentTime in that very run.
SeekGuardResumption ==
    (lastTick.afterSeeking /\ ~lastTick.seeking /\ lastTick.gap) =>
        /\ lastTick.outcome = "wrote"
        /\ currentTime # lastTick.before

\* C4: a handleScroll run whose containerRect.height - window.innerHeight
\* is <= 0 leaves the target at its prior value, for every duration and top.
NoUpdateWithoutRange ==
    (samples.now.ran /\ samples.now.height - samples.now.windowHeight <= 0) =>
        /\ ~samples.now.wrote
        /\ samples.now.target = samples.now.before
        /\ targetTimeRef = samples.now.before

\* C4 witness: such an event arrived scrolled far down, with the duration
\* known and a target of 50 s to retain.
RangeRejectedAtNonzeroTarget ==
    /\ samples.now.ran
    /\ samples.now.height - samples.now.windowHeight = 0
    /\ samples.now.top < 0
    /\ samples.now.duration = Seconds(100)
    /\ samples.now.before = Seconds(50)

\* C5: while video.duration is NaN a scroll event with a positive
\* scrollable range leaves the target unchanged at 0, and no renderLoop run
\* writes video.currentTime or starts a seek.
NoUpdateWhileDurationNaN ==
    /\ (/\ samples.now.ran
        /\ samples.now.duration.k = "nan"
        /\ samples.now.height - samples.now.windowHeight > 0) =>
           /\ ~samples.now.wrote
           /\ targetTimeRef = samples.now.before
    /\ duration.k = "nan" =>
           /\ targetTimeRef = Fin(0)
           /\ currentTime = Fin(0)
           /\ ~seeking
           /\ lastTick.outcome = "converged"

\* C5 witness: halfway down a tall container, duration still NaN, and a
\* frame ran since the mount.
ScrollWhileMetadataPending ==
    /\ samples.now.ran
    /\ samples.now.duration.k = "nan"
    /\ samples.now.height - samples.now.windowHeight > 0
    /\ samples.now.top = -4
    /\ duration.k = "nan"
    /\ Ticks >= 1

\* C6: the target is a finite number in every reachable state: handleScroll
\* writes nothing unless video.duration is finite.
TargetAlwaysFinite == IsFinite(targetTimeRef)

\* the clamped scroll distance, in lengths: 0 <= it <= maxScroll
ClampedDistance(s) ==
    LET sd == -s.top
        ms == s.height - s.windowHeight
    IN  IF sd < 0 THEN 0 ELSE IF sd > ms THEN ms ELSE sd

AcceptedFinite(s) ==
    /\ s.ran
    /\ s.height - s.windowHeight > 0
    /\ s.duration.k = "fin"
    /\ s.duration.v >= 0

\* C7: an accepted scroll sample with a finite duration >= 0 writes
\* clamp(-top / maxScroll, 0, 1) * duration (to the nearest time unit), and
\* of two samples with the same duration the one with the larger progress
\* writes the larger or equal target.
TargetIsProgressTimesDuration ==
    /\ AcceptedFinite(samples.now) =>
           LET ms == samples.now.height - samples.now.windowHeight
               exact == ClampedDistance(samples.now) * samples.now.duration.v
           IN  /\ samples.now.wrote
               /\ samples.now.target.k = "fin"
               /\ 2 * AbsInt(samples.now.target.v * ms - exact) <= ms
               /\ targetTimeRef = samples.now.target
    /\ (/\ AcceptedFinite(samples.now)
        /\ AcceptedFinite(samples.then)
        /\ samples.now.duration = samples.then.duration
        /\ ClampedDistance(samples.then)
               * (samples.now.height - samples.now.windowHeight)
             <= ClampedDistance(samples.now)
               * (samples.then.height - samples.then.windowHeight)) =>
           samples.then.target.v <= samples.now.target.v

\* C7 witness: duration 100 s, container 5 viewports tall, progress 0.5:
\* the target is 50 s, above the nonzero target of an earlier sample that
\* was taken at a smaller progress.
ScenarioHalfway ==
    /\ AcceptedFinite(samples.now)
    /\ AcceptedFinite(samples.then)
    /\ samples.now.duration = Seconds(100)
    /\ samples.now.height = 10
    /\ samples.now.windowHeight = 2
    /\ samples.now.top = -4
    /\ samples.now.target = Seconds(50)
    /\ targetTimeRef = Seconds(50)
    /\ samples.then.duration = Seconds(100)
    /\ samples.then.target.v < samples.now.target.v
    /\ samples.then.target.v > 0

\* C8: from a gap of 10 s, with easing 0.15, a fixed target and no tick
\* meeting a seek in progress, the gap is within 0.01 s after 43 ticks, and
\* no tick after reaching it writes.
ConvergenceWithin43 ==
    /\ Ticks >= 43 => ~Significant(Diff)
    /\ lastTick.outcome = "wrote" => Ticks <= 43
    /\ lastTick.outcome \in {"converged", "wrote"}

\* C8 witness: the 43rd tick wrote and brought the gap within 0.01 s, and
\* the 42 ticks before it did not.
ConvergedAtTick43 ==
    /\ Ticks = 43
    /\ lastTick.outcome = "wrote"
    /\ ~Significant(Diff)

\* C9: isLoading is true until the first metadata-loaded notification and
\* false in every state after it, whatever follows.
LoadingToggledOnce == isLoading = (notified = 0)

\* C9 witness: the notification came twice, scroll events and ticks moved
\* the target and the playback time, and the component was unmounted.
LoadedTwiceThenUnmounted ==
    /\ notified = 2
    /\ ~isLoading
    /\ targetTimeRef # Fin(0)
    /\ currentTime # Fin(0)
    /\ phase = "unmounted"

SameInputs(a, b) ==
    /\ a.top = b.top
    /\ a.height = b.height
    /\ a.windowHeight = b.windowHeight
    /\ a.duration = b.duration

\* C10: two handleScroll runs that read the same top, height, viewport
\* height and duration both write or both do not, and write the same
\* target, whatever the prior target, playback time and seeking flag were.
ScrollIsPure ==
    (samples.now.ran /\ samples.then.ran
        /\ SameInputs(samples.now, samples.then)) =>
        /\ samples.now.wrote = samples.then.wrote
        /\ samples.now.wrote =>
               /\ samples.now.target = samples.then.target
               /\ targetTimeRef = samples.then.target

\* C10 witness: the same inputs were read twice, from different prior
\* targets, with a tick having written in between and a seek in progress.
SameInputsDifferentState ==
    /\ samples.now.ran
    /\ samples.then.ran
    /\ SameInputs(samples.now, samples.then)
    /\ samples.now.wrote
    /\ samples.now.before # samples.then.before
    /\ samples.now.before.v > samples.now.target.v
    /\ currentTime # Fin(0)
    /\ seeking

\* a renderLoop run: the host runs a callback that was not cancelled
TickRuns ==
    /\ hostBatch # {}
    /\ hostBatch \subseteq frameCallbacks
    /\ hostBatch' = {}

\* C11: while the component is mounted every renderLoop run schedules its
\* successor, on every branch and for every target, currentTime and
\* duration: after the run one callback is pending under a new handle.
EveryTickReschedules ==
    [][(phase = "mounted" /\ TickRuns) =>
           /\ nextHandle' = nextHandle + 1
           /\ animationFrameId' = nextHandle
           /\ nextHandle \in frameCallbacks']_vars

\* |target - currentTime| <= 0.01, both finite
InDeadZone ==
    /\ targetTimeRef.k = "fin"
    /\ currentTime.k = "fin"
    /\ AbsInt(targetTimeRef.v - currentTime.v) * 100 <= Scale

\* C12: a renderLoop run that finds |target - currentTime| <= 0.01 does not
\* write video.currentTime, seeking or not; the remaining gap stays.
DeadZoneNoWrite ==
    [][InDeadZone => currentTime' = currentTime]_vars

\* C12 witness: a tick ran inside the dead zone with no seek in progress
\* and left a gap that is not zero.
TickInsideDeadZone ==
    /\ Ticks >= 44
    /\ InDeadZone
    /\ lastTick.outcome = "converged"
    /\ ~lastTick.seeking
    /\ currentTime # targetTimeRef

\* |target - currentTime| > 0.01: a finite gap above the threshold, or an
\* infinite target
LargeGap ==
    \/ targetTimeRef.k = "inf"
    \/ /\ targetTimeRef.k = "fin"
       /\ AbsInt(targetTimeRef.v - currentTime.v) * 100 > Scale

\* C13: a renderLoop run with |diff| > 0.01 and seeking false writes
\* currentTime + 0.15 * diff: the gap to the target becomes 0.85 of the gap
\* before (to the nearest time unit), with the same sign.
DampedStep ==
    [][(TickRuns /\ ~seeking /\ LargeGap) =>
           /\ currentTime' # currentTime
           /\ targetTimeRef.k = "fin" =>
                  LET gap == targetTimeRef.v - currentTime.v
                      after == targetTimeRef.v - currentTime'.v
                  IN  /\ 2 * AbsInt(100 * after - 85 * gap) <= 100
                      /\ Sign(after) = Sign(gap)]_vars

\* the value the latest handleScroll run left in targetTimeRef.current: the
\* write of the most recent accepted scroll event, or the initial 0
LatestScrollTarget ==
    IF samples.now.ran THEN samples.now.target ELSE Fin(0)

\* C14: under every interleaving of scroll events and frames, a renderLoop
\* run takes its diff from the target the most recent accepted scroll event
\* wrote (or the initial 0): it writes 0.15 of the gap to that value when
\* the gap is finite, above 0.01 and no seek is in progress, and nothing
\* otherwise.
CausalVisibility ==
    [][TickRuns =>
           IF /\ LatestScrollTarget.k = "fin"
              /\ ~seeking
              /\ AbsInt(LatestScrollTarget.v - currentTime.v) * 100 > Scale
           THEN 2 * AbsInt(100 * (currentTime'.v - currentTime.v)
                            - 15 * (LatestScrollTarget.v - currentTime.v))
                    <= 100
           ELSE currentTime' = currentTime]_vars

\* C14 witness: a scroll event overwrote the target an earlier one had
\* written, and the tick after it moved currentTime from 0 by 0.15 of the
\* later target.
TickSawLatestScroll ==
    /\ samples.now.wrote
    /\ samples.then.wrote
    /\ samples.now.target.k = "fin"
    /\ samples.then.target.k = "fin"
    /\ samples.then.target.v > samples.now.target.v
    /\ lastTick.outcome = "wrote"
    /\ lastTick.before = Fin(0)
    /\ 100 * currentTime.v = 15 * samples.now.target.v

\* C15: a write skipped while seeking is retried on the following ticks
\* without a cap, so that a mounted component with a settled target ends
\* within 0.01 of it for good. The part of it that finite runs decide: while
\* mounted and not yet within 0.01 of the target, a tick is still pending.
RetryStaysPending ==
    (phase = "mounted" /\ ~InDeadZone) => frameCallbacks # {}

\* C16: the scroll listener is attached and the loop is scheduled before the
\* metadata is known, and while duration is NaN no step (scroll event or
\* tick) changes the target or currentTime; the step on which the metadata
\* arrives changes neither the target, currentTime nor the scheduling of
\* the loop.
InertWhileLoading ==
    [][/\ (phase = "mounted" /\ duration.k = "nan") =>
              /\ "handleScroll" \in scrollListeners
              /\ frameCallbacks = {animationFrameId}
              /\ targetTimeRef = Fin(0)
              /\ currentTime = Fin(0)
              /\ UNCHANGED << targetTimeRef, currentTime >>
       /\ (isLoading' # isLoading \/ duration' # duration) =>
              UNCHANGED << targetTimeRef, currentTime, frameCallbacks,
                           hostBatch, animationFrameId, nextHandle >>]_vars

\* C16 witness: still loading, after a scroll event halfway down the
\* container and a tick; both left the target and currentTime at 0 and the
\* next tick is scheduled.
ScrolledAndTickedWhileLoading ==
    /\ isLoading
    /\ duration.k = "nan"
    /\ samples.now.ran
    /\ samples.now.top = -4
    /\ samples.now.height = 10
    /\ Ticks >= 1
    /\ targetTimeRef = Fin(0)
    /\ currentTime = Fin(0)
    /\ frameCallbacks = {animationFrameId}

\* C17: the scroll handler writes only the target and the tick writes only
\* video.currentTime: a step that changes the target leaves currentTime,
\* duration and seeking alone; currentTime changes only on a renderLoop run;
\* a renderLoop run leaves the target and duration alone, and seeking
\* changes on it only as the video starts the seek the write asked for.
SingleWriter ==
    [][/\ targetTimeRef' # targetTimeRef =>
              /\ ~TickRuns
              /\ UNCHANGED << currentTime, duration, seeking >>
       /\ currentTime' # currentTime => TickRuns
       /\ TickRuns =>
              /\ UNCHANGED << targetTimeRef, duration >>
              /\ seeking' # seeking =>
                     (seeking' /\ currentTime' # currentTime)]_vars

\* C17 witness: a scroll event has moved the target and a tick has then
\* written currentTime.
BothWritersActed ==
    /\ targetTimeRef.k = "fin"
    /\ targetTimeRef # Fin(0)
    /\ currentTime # Fin(0)
    /\ lastTick.outcome = "wrote"
    /\ lastTick.before = Fin(0)

\* C18: while mounted, between ticks exactly one frame callback is pending
\* and animationFrameId holds its handle.
OnePendingTick ==
    (phase = "mounted" /\ hostBatch = {}) =>
        frameCallbacks = {animationFrameId}

\* C19: the target is its initial 0 or progress * duration of the latest
\* accepted scroll sample, whose progress is a number in [0,1], never NaN;
\* so once the duration is known and finite, 0 <= target <= duration.
TargetWithinDuration ==
    /\ ~samples.now.ran => targetTimeRef = Fin(0)
    /\ duration.k = "nan" => targetTimeRef = Fin(0)
    /\ (samples.now.ran /\ ~samples.now.wrote) =>
           targetTimeRef = samples.now.before
    /\ (samples.now.ran /\ samples.now.wrote) =>
           LET progress == Progress(-samples.now.top,
                               samples.now.height - samples.now.windowHeight)
           IN  /\ progress.k = "rat"
               /\ 0 <= progress.n
               /\ progress.n <= progress.d
               /\ targetTimeRef = Times(progress, samples.now.duration)
    /\ duration.k = "fin" =>
           /\ targetTimeRef.k = "fin"
           /\ 0 <= targetTimeRef.v
           /\ targetTimeRef.v <= duration.v

\* C19 witness: duration 100 s; a sample above the container's top was
\* clamped to progress 0 (target 0), a later one past its end to progress 1
\* (target = duration), and a tick has run.
TargetAtBothEnds ==
    /\ duration = Seconds(100)
    /\ samples.then.wrote
    /\ samples.then.top = 1
    /\ samples.then.target = Fin(0)
    /\ samples.now.wrote
    /\ samples.now.top = -9
    /\ samples.now.height = 10
    /\ targetTimeRef = duration
    /\ Ticks >= 1

====
